---------------------------- MODULE Spec2Model ----------------------------
(* NanoBananaClient (src/src/index.ts): construction from config and       *)
(* process.env, the generation calls against the OpenAI and Google SDK     *)
(* handles, and the local persistence layer over one output directory.     *)
(*                                                                         *)
(* Strings are sequences of tokens, so that template strings and           *)
(* path.join are concatenations and the regular expressions are tests on   *)
(* the tokens.  `undefined` is the one-token string Undefined, which no    *)
(* input alphabet contains.                                                *)
EXTENDS Integers, Sequences, FiniteSets, TLC

VARIABLES env, dirs, files, client, last, running, now, sources

vars == <<env, dirs, files, client, last, running, now, sources>>

(* ------------------------------ bounds --------------------------------- *)

\* most files the model lets the file system hold at once
MaxFiles == 2

\* most calls that the model lets overlap
MaxCalls == 3

\* the last value that the model lets Date.now() reach
MaxNow == 1

(* ------------------------- JavaScript values --------------------------- *)

Undefined == <<"undefined">>

\* JS truthiness of a string-or-undefined value: undefined and '' are falsy
Truthy(v) == v # Undefined /\ v # <<>>

\* a || b
JsOr(a, b) == IF Truthy(a) THEN a ELSE b

(* ------------------------------- paths --------------------------------- *)

Cwd == <<"/", "cwd">>

\* path.join of two normalized operands, the second one relative
PathJoin(a, b) == a \o <<"/">> \o b

IsAbsolute(p) == Len(p) > 0 /\ p[1] = "/"

\* the file system resolves a relative path against process.cwd()
Resolve(p) == IF IsAbsolute(p) THEN p ELSE PathJoin(Cwd, p)

DefaultOutputDir == PathJoin(Cwd, <<"temp">>)


(* ---------------------------- file system ------------------------------ *)

\* fs.existsSync: true for a directory and for a regular file alike
ExistsSync(d, p) == d[Resolve(p)] # "absent"

\* fs.mkdirSync(p, { recursive: true })
MkdirSync(d, p) == [d EXCEPT ![Resolve(p)] = "dir"]

\* the entries of directory p: fs.promises.readdir
ReadDir(f, p) ==
  LET rd == Resolve(p)
      n  == Len(rd)
  IN  { SubSeq(q, n + 2, Len(q)) :
          q \in { r \in DOMAIN f :
                    /\ Len(r) > n + 1
                    /\ SubSeq(r, 1, n) = rd
                    /\ r[n + 1] = "/"
                    /\ \A k \in (n + 2)..Len(r) : r[k] # "/" } }

\* fs.promises.writeFile(p, bytes) succeeds when the parent is a directory
CanWrite(d, dir) == d[Resolve(dir)] = "dir"

WriteFile(f, p, size) ==
  [q \in DOMAIN f \cup {Resolve(p)} |-> IF q = Resolve(p) THEN size ELSE f[q]]

\* fs.promises.unlink of every path of a set
Unlink(f, ps) ==
  [q \in DOMAIN f \ { Resolve(p) : p \in ps } |-> f[q]]

(* ---------------------------- module loading --------------------------- *)

\* a .env file: whether it exists and the values it gives the two keys
NoEnvFile ==
  [ exists |-> FALSE, NanoBanana_ApiKey |-> Undefined,
    OPENAI_API_KEY |-> Undefined ]

\* dotenv.config({ path }): a variable of the file is set in process.env
\* unless process.env has it already
DotenvConfig(e, file) ==
  [ NanoBanana_ApiKey |-> IF e.NanoBanana_ApiKey # Undefined
                          THEN e.NanoBanana_ApiKey
                          ELSE file.NanoBanana_ApiKey,
    OPENAI_API_KEY    |-> IF e.OPENAI_API_KEY # Undefined
                          THEN e.OPENAI_API_KEY
                          ELSE file.OPENAI_API_KEY ]

\* for (const envPath of envPaths)
\*   if (fs.existsSync(envPath)) { dotenv.config({ path: envPath }); break }
\* with envPaths the .env of the working directory, then the one of
\* ~/.agentic-loop
LoadEnv(e, cwdFile, homeFile) ==
  IF cwdFile.exists THEN DotenvConfig(e, cwdFile)
  ELSE IF homeFile.exists THEN DotenvConfig(e, homeFile)
  ELSE e

(* ----------------------------- constructor ----------------------------- *)

ErrApiKeyRequired ==
  "API key required. Set OPENAI_API_KEY or NanoBanana_ApiKey in .env"

\* const apiKey = config.apiKey || process.env.NanoBanana_ApiKey, and the
\* same for the OpenAI key
CtorKeys(config, e) ==
  [ apiKey       |-> JsOr(config.apiKey, e.NanoBanana_ApiKey),
    openaiApiKey |-> JsOr(config.openaiApiKey, e.OPENAI_API_KEY) ]

\* mutant of CtorThrows: only the Google key is looked at
CtorThrowsGoogleOnly(apiKey, openaiApiKey) == ~Truthy(apiKey)

\* if (!apiKey && !openaiApiKey) throw
CtorThrows(apiKey, openaiApiKey) == ~Truthy(apiKey) /\ ~Truthy(openaiApiKey)

\* outputDir: config.outputDir || path.join(process.cwd(), 'temp')
CtorOutputDir(config) == JsOr(config.outputDir, DefaultOutputDir)

NoClient ==
  [ made |-> FALSE, apiKey |-> Undefined, openaiApiKey |-> Undefined,
    outputDir |-> Undefined, genAI |-> FALSE, openai |-> FALSE ]

NewClient(config, e) ==
  LET k == CtorKeys(config, e)
  IN  [ made         |-> TRUE,
        apiKey       |-> k.apiKey,
        openaiApiKey |-> k.openaiApiKey,
        outputDir    |-> CtorOutputDir(config),
        genAI        |-> Truthy(k.apiKey),
        openai       |-> Truthy(k.openaiApiKey) ]

(* ------------------------------ getConfig ------------------------------ *)

\* mutant of GetConfigRun: return { ...this.config }
GetConfigAllRun(c) ==
  [ apiKey |-> c.apiKey, openaiApiKey |-> c.openaiApiKey,
    outputDir |-> c.outputDir ]

\* getConfig(): return { outputDir: this.config.outputDir }
GetConfigRun(c) == [ outputDir |-> c.outputDir ]

(* ------------------------------ saveImage ------------------------------ *)

\* the characters of the base64 alphabet that the inputs use
B64Alphabet == {"Q", "U", "I", "A"}

\* Buffer.from(s, 'base64') reads sextets up to the first '=' and skips
\* characters outside the alphabet
RECURSIVE B64Sextets(_)
B64Sextets(s) ==
  IF s = <<>> \/ Head(s) = "="
  THEN 0
  ELSE (IF Head(s) \in B64Alphabet THEN 1 ELSE 0) + B64Sextets(Tail(s))

\* mutant of Base64Bytes: only whole quads of sextets are decoded
Base64BytesWholeQuads(s) == (B64Sextets(s) \div 4) * 3

\* the byte length of Buffer.from(s, 'base64'): 6 bits a sextet, whole bytes
Base64Bytes(s) == (B64Sextets(s) * 6) \div 8

ErrWrite == "ENOENT: no such file or directory"

\* mutant of SaveImageRun: the path returned is path.resolve of the join
SaveImageResolvedRun(c, d, f, base64Data, filename) ==
  LET filePath == PathJoin(c.outputDir, filename)
  IN  IF CanWrite(d, c.outputDir)
      THEN [ err   |-> "",
             path  |-> Resolve(filePath),
             files |-> WriteFile(f, filePath, Base64Bytes(base64Data)) ]
      ELSE [ err |-> ErrWrite, path |-> Undefined, files |-> f ]

\* saveImage(base64Data, filename): join, decode, write, return the path
SaveImageRun(c, d, f, base64Data, filename) ==
  LET filePath == PathJoin(c.outputDir, filename)
  IN  IF CanWrite(d, c.outputDir)
      THEN [ err   |-> "",
             path  |-> filePath,
             files |-> WriteFile(f, filePath, Base64Bytes(base64Data)) ]
      ELSE [ err |-> ErrWrite, path |-> Undefined, files |-> f ]

(* ---------------------------- generateImage ---------------------------- *)

ErrOpenAIRequired ==
  "OpenAI API key required for image generation. Set OPENAI_API_KEY in .env"
ErrNoImageData == "No image data returned from DALL-E"
ErrProvider == "provider request failed"

\* the options of generateImage that shape the request; a caller can pass
\* aspectRatio and imageSize, which the method does not declare
NoImageOptions ==
  [ model |-> Undefined, size |-> Undefined, quality |-> Undefined,
    aspectRatio |-> Undefined, imageSize |-> Undefined ]

\* no request was issued
NoRequest == [ issued |-> FALSE ]

\* the argument of this.openai.images.generate, the prompt left out
ImageRequest(options) ==
  [ model           |-> JsOr(options.model, <<"dall-e-3">>),
    n               |-> 1,
    size            |-> JsOr(options.size, <<"1024x1024">>),
    quality         |-> JsOr(options.quality, <<"standard">>),
    response_format |-> <<"b64_json">> ]

\* mutant of ShouldSave: options?.save === true
ShouldSaveOnlyTrue(save) == save = "true"

\* options?.save !== false
ShouldSave(save) == save # "false"

\* mutant of ImageFilename: a given filename is never suffixed
ImageFilenameNoIndex(filename, i, ts) ==
  IF Truthy(filename)
  THEN filename \o <<".", "png">>
  ELSE <<"image", "_", ToString(ts), "_", ToString(i), ".", "png">>

\* options.filename ? `${filename}${i > 0 ? `_${i}` : ''}.png`
\*                  : `image_${Date.now()}_${i}.png`        (i from 0)
ImageFilename(filename, i, ts) ==
  IF Truthy(filename)
  THEN filename \o (IF i > 0 THEN <<"_", ToString(i)>> ELSE <<>>)
                \o <<".", "png">>
  ELSE <<"image", "_", ToString(ts), "_", ToString(i), ".", "png">>

\* the GeneratedImage built for one entry of response.data
MakeImage(entry, filePath) ==
  [ data |-> entry.b64_json, mimeType |-> "image/png", filePath |-> filePath ]

\* mutant of HasImage: every entry is kept
HasImageAlways(e) == TRUE

\* whether the loop keeps entry e: if (imageData.b64_json)
HasImage(e) == Truthy(e.b64_json)

\* for (let i = 0; i < response.data.length; i++) { ... }, from entry k
\* (k from 1) with the images and files accumulated so far
RECURSIVE ImageLoop(_, _, _, _, _, _, _, _)
ImageLoop(c, d, data, k, save, filename, ts, acc) ==
  IF k > Len(data) THEN acc
  ELSE IF ~HasImage(data[k])
  THEN ImageLoop(c, d, data, k + 1, save, filename, ts, acc)
  ELSE IF ~ShouldSave(save)
  THEN ImageLoop(c, d, data, k + 1, save, filename, ts,
         [acc EXCEPT !.images = Append(@, MakeImage(data[k], Undefined))])
  ELSE LET sv == SaveImageRun(c, d, acc.files, data[k].b64_json,
                              ImageFilename(filename, k - 1, ts))
       IN  IF sv.err # ""
           THEN [acc EXCEPT !.err = sv.err, !.images = <<>>]
           ELSE ImageLoop(c, d, data, k + 1, save, filename, ts,
                  [acc EXCEPT !.images = Append(@, MakeImage(data[k], sv.path)),
                              !.files = sv.files])

\* mutant of EmptyResponse: the length test is missing
EmptyResponseUndefinedOnly(outcome) == ~outcome.defined

\* if (!response.data || response.data.length === 0)
EmptyResponse(outcome) == ~outcome.defined \/ Len(outcome.data) = 0

\* generateImage(prompt, options) against one outcome of images.generate
GenerateImageRun(c, d, f, outcome, save, filename, ts) ==
  IF ~c.openai
  THEN [ err |-> ErrOpenAIRequired, images |-> <<>>, files |-> f, net |-> 0 ]
  ELSE IF outcome.rejects
  THEN [ err |-> ErrProvider, images |-> <<>>, files |-> f, net |-> 1 ]
  ELSE IF EmptyResponse(outcome)
  THEN [ err |-> ErrNoImageData, images |-> <<>>, files |-> f, net |-> 1 ]
  ELSE ImageLoop(c, d, outcome.data, 1, save, filename, ts,
         [ err |-> "", images |-> <<>>, files |-> f, net |-> 1 ])

(* ----------------------------- generateText ---------------------------- *)

ErrGoogleRequiredText == "Google API key required for text generation"

\* mutant of GenerateTextRun: the handle is tested after the request
GenerateTextLateCheckRun(c, outcome) ==
  IF outcome.rejects
  THEN [ err |-> ErrProvider, text |-> Undefined, net |-> 1 ]
  ELSE IF ~c.genAI
  THEN [ err |-> ErrGoogleRequiredText, text |-> Undefined, net |-> 1 ]
  ELSE [ err |-> "", text |-> outcome.text, net |-> 1 ]

\* generateText(prompt, options): return response.text()
GenerateTextRun(c, outcome) ==
  IF ~c.genAI
  THEN [ err |-> ErrGoogleRequiredText, text |-> Undefined, net |-> 0 ]
  ELSE IF outcome.rejects
  THEN [ err |-> ErrProvider, text |-> Undefined, net |-> 1 ]
  ELSE [ err |-> "", text |-> outcome.text, net |-> 1 ]

(* ------------------------ listing and clearing ------------------------- *)

ImageExtensions == {"png", "jpg", "jpeg", "gif", "webp", "svg"}

\* the i flag of the regular expression: letters compare in lower case
Lower(tok) ==
  CASE tok = "PNG" -> "png"
    [] tok = "JPG" -> "jpg"
    [] tok = "SVG" -> "svg"
    [] OTHER -> tok

\* mutant of IsImageName: the dot is not escaped, nor required
IsImageNameNoDot(f) ==
  /\ Len(f) >= 1
  /\ Lower(f[Len(f)]) \in ImageExtensions

\* /\.(png|jpg|jpeg|gif|webp|svg)$/i.test(f)
IsImageName(f) ==
  /\ Len(f) >= 2
  /\ f[Len(f) - 1] = "."
  /\ Lower(f[Len(f)]) \in ImageExtensions

ErrReadDir == "ENOENT: no such file or directory, scandir"

\* listSavedImages(): readdir, filter, map to path.join(outputDir, f)
ListSavedImagesRun(c, d, f) ==
  IF d[Resolve(c.outputDir)] # "dir"
  THEN [ err |-> ErrReadDir, paths |-> {} ]
  ELSE [ err   |-> "",
         paths |-> { PathJoin(c.outputDir, n) :
                       n \in { m \in ReadDir(f, c.outputDir) : IsImageName(m) } } ]

\* mutant of ClearSavedImagesRun: every entry of the directory is unlinked
ClearAllEntriesRun(c, d, f) ==
  LET all == { PathJoin(c.outputDir, n) : n \in ReadDir(f, c.outputDir) }
  IN  IF d[Resolve(c.outputDir)] # "dir"
      THEN [ err |-> ErrReadDir, count |-> 0, files |-> f ]
      ELSE [ err |-> "", count |-> Cardinality(all), files |-> Unlink(f, all) ]

\* clearSavedImages(): unlink every listed path, return images.length
ClearSavedImagesRun(c, d, f) ==
  LET ls == ListSavedImagesRun(c, d, f)
  IN  IF ls.err # ""
      THEN [ err |-> ls.err, count |-> 0, files |-> f ]
      ELSE [ err |-> "", count |-> Cardinality(ls.paths),
             files |-> Unlink(f, ls.paths) ]

(* ----------------------------- generateSvg ------------------------------ *)

ErrGoogleRequiredSvg == "Google API key required for SVG generation"
ErrNoSvg == "Failed to generate SVG"

\* what String.prototype.match returns when the pattern does not match
Null == <<"null">>

\* the i flag of the pattern: the tags compare in lower case
LowerTag(tok) ==
  CASE tok = "<SVG>"  -> "<svg>"
    [] tok = "</SVG>" -> "</svg>"
    [] OTHER -> tok

\* the positions of the opening and of the closing tags of a text, which
\* is a sequence of tags and other tokens
SvgOpens(text)  == { i \in 1..Len(text) : LowerTag(text[i]) = "<svg>" }
SvgCloses(text) == { j \in 1..Len(text) : LowerTag(text[j]) = "</svg>" }

Min(S) == CHOOSE x \in S : \A y \in S : x <= y
Max(S) == CHOOSE x \in S : \A y \in S : x >= y

\* mutant of SvgMatch: the lazy pattern /<svg[\s\S]*?<\/svg>/i
SvgMatchLazy(text) ==
  LET starts == { i \in SvgOpens(text) : \E j \in SvgCloses(text) : j > i }
  IN  IF starts = {} THEN Null
      ELSE LET i == Min(starts)
           IN  SubSeq(text, i, Min({ j \in SvgCloses(text) : j > i }))

\* mutant of SvgMatch: the pattern /<svg[\s\S]*/i, no closing tag required
SvgMatchOpenOnly(text) ==
  IF SvgOpens(text) = {} THEN Null
  ELSE SubSeq(text, Min(SvgOpens(text)), Len(text))

\* text.match(/<svg[\s\S]*<\/svg>/i): null, or element 0 of the match,
\* which starts at the leftmost position a match can start at and, the
\* star being greedy, runs to the last closing tag
SvgMatch(text) ==
  LET starts == { i \in SvgOpens(text) : \E j \in SvgCloses(text) : j > i }
  IN  IF starts = {} THEN Null
      ELSE SubSeq(text, Min(starts), Max(SvgCloses(text)))

\* options?.filename ? `${options.filename}.svg` : `svg_${Date.now()}.svg`
SvgFilename(filename, ts) ==
  IF Truthy(filename)
  THEN filename \o <<".", "svg">>
  ELSE <<"svg", "_", ToString(ts), ".", "svg">>

\* mutant of GenerateSvgRun: the text is written before it is matched
GenerateSvgWriteFirstRun(c, d, f, outcome, save, filename, ts) ==
  LET svgMatch == SvgMatch(outcome.text)
      filePath == PathJoin(c.outputDir, SvgFilename(filename, ts))
      image(fp) == [ data |-> svgMatch, mimeType |-> "image/svg+xml",
                     filePath |-> fp ]
      written == IF ShouldSave(save) /\ CanWrite(d, c.outputDir)
                 THEN WriteFile(f, filePath, Len(outcome.text))
                 ELSE f
  IN  IF ~c.genAI
      THEN [ err |-> ErrGoogleRequiredSvg, images |-> <<>>, files |-> f,
             net |-> 0 ]
      ELSE IF outcome.rejects
      THEN [ err |-> ErrProvider, images |-> <<>>, files |-> f, net |-> 1 ]
      ELSE IF svgMatch = Null
      THEN [ err |-> ErrNoSvg, images |-> <<>>, files |-> written, net |-> 1 ]
      ELSE IF ~ShouldSave(save)
      THEN [ err |-> "", images |-> <<image(Undefined)>>, files |-> f,
             net |-> 1 ]
      ELSE IF ~CanWrite(d, c.outputDir)
      THEN [ err |-> ErrWrite, images |-> <<>>, files |-> f, net |-> 1 ]
      ELSE [ err    |-> "",
             images |-> <<image(filePath)>>,
             files  |-> written,
             net    |-> 1 ]

\* generateSvg(prompt, options) against one outcome of generateContent;
\* the file holds the matched text, one byte a token
GenerateSvgRun(c, d, f, outcome, save, filename, ts) ==
  LET svgMatch == SvgMatch(outcome.text)
      filePath == PathJoin(c.outputDir, SvgFilename(filename, ts))
      image(fp) == [ data |-> svgMatch, mimeType |-> "image/svg+xml",
                     filePath |-> fp ]
  IN  IF ~c.genAI
      THEN [ err |-> ErrGoogleRequiredSvg, images |-> <<>>, files |-> f,
             net |-> 0 ]
      ELSE IF outcome.rejects
      THEN [ err |-> ErrProvider, images |-> <<>>, files |-> f, net |-> 1 ]
      ELSE IF svgMatch = Null
      THEN [ err |-> ErrNoSvg, images |-> <<>>, files |-> f, net |-> 1 ]
      ELSE IF ~ShouldSave(save)
      THEN [ err |-> "", images |-> <<image(Undefined)>>, files |-> f,
             net |-> 1 ]
      ELSE IF ~CanWrite(d, c.outputDir)
      THEN [ err |-> ErrWrite, images |-> <<>>, files |-> f, net |-> 1 ]
      ELSE [ err    |-> "",
             images |-> <<image(filePath)>>,
             files  |-> WriteFile(f, filePath, Len(svgMatch)),
             net    |-> 1 ]

(* ------------------------------ healthCheck ---------------------------- *)

\* the network events of `await request(provider)`: the request is issued
\* and the call goes on only when it has settled
Awaited(provider) == << <<"request", provider>>, <<"settled", provider>> >>

\* the network events of one operation that awaits its only request
AwaitedCalls(provider, net) == IF net = 0 THEN <<>> ELSE Awaited(provider)

\* mutant of HealthCheckRun: ok requires every provider
HealthCheckAllRun(c, openaiResolves, googleResolves) ==
  LET openaiOk == c.openai /\ openaiResolves
      googleOk == c.genAI /\ googleResolves
  IN  [ err    |-> "",
        health |-> [ ok |-> openaiOk /\ googleOk,
                     openai |-> openaiOk, google |-> googleOk ],
        net    |-> (IF c.openai THEN 1 ELSE 0) + (IF c.genAI THEN 1 ELSE 0),
        events |-> (IF c.openai THEN Awaited("openai") ELSE <<>>)
                   \o (IF c.genAI THEN Awaited("google") ELSE <<>>) ]

\* mutant of HealthCheckRun: both probes are issued, then both awaited
HealthCheckParallelRun(c, openaiResolves, googleResolves) ==
  LET openaiOk == c.openai /\ openaiResolves
      googleOk == c.genAI /\ googleResolves
  IN  [ err    |-> "",
        health |-> [ ok |-> openaiOk \/ googleOk,
                     openai |-> openaiOk, google |-> googleOk ],
        net    |-> (IF c.openai THEN 1 ELSE 0) + (IF c.genAI THEN 1 ELSE 0),
        events |-> (IF c.openai THEN << <<"request", "openai">> >> ELSE <<>>)
                   \o (IF c.genAI THEN << <<"request", "google">> >> ELSE <<>>)
                   \o (IF c.openai THEN << <<"settled", "openai">> >> ELSE <<>>)
                   \o (IF c.genAI THEN << <<"settled", "google">> >> ELSE <<>>) ]

\* healthCheck(): one guarded call per configured provider, the OpenAI
\* probe awaited before the Google probe is issued
HealthCheckRun(c, openaiResolves, googleResolves) ==
  LET openaiOk == c.openai /\ openaiResolves
      googleOk == c.genAI /\ googleResolves
  IN  [ err    |-> "",
        health |-> [ ok |-> openaiOk \/ googleOk,
                     openai |-> openaiOk, google |-> googleOk ],
        net    |-> (IF c.openai THEN 1 ELSE 0) + (IF c.genAI THEN 1 ELSE 0),
        events |-> (IF c.openai THEN Awaited("openai") ELSE <<>>)
                   \o (IF c.genAI THEN Awaited("google") ELSE <<>>) ]

(* ------------------------------- inputs -------------------------------- *)

GoogleEnvKey == <<"env-google-key">>
OpenAIEnvKey == <<"env-openai-key">>
GoogleCfgKey == <<"cfg-google-key">>
OpenAICfgKey == <<"cfg-openai-key">>

\* process.env after the module has loaded
EnvValues ==
  [ NanoBanana_ApiKey : {Undefined, GoogleEnvKey},
    OPENAI_API_KEY    : {Undefined, OpenAIEnvKey} ]

NoEnv == [ NanoBanana_ApiKey |-> Undefined, OPENAI_API_KEY |-> Undefined ]

\* the keys that the two .env files can hold
CwdGoogleKey  == <<"cwd-google-key">>
CwdOpenAIKey  == <<"cwd-openai-key">>
HomeGoogleKey == <<"home-google-key">>
HomeOpenAIKey == <<"home-openai-key">>

\* a .env file that is missing, or exists and gives each key or not
EnvFiles(googleKey, openaiKey) ==
  { NoEnvFile }
  \cup [ exists : {TRUE}, NanoBanana_ApiKey : {Undefined, googleKey},
         OPENAI_API_KEY : {Undefined, openaiKey} ]

\* the environment of the process when it starts and the two .env files
SourceSets ==
  [ shell : EnvValues,
    cwd   : EnvFiles(CwdGoogleKey, CwdOpenAIKey),
    home  : EnvFiles(HomeGoogleKey, HomeOpenAIKey) ]

NoSources == [ shell |-> NoEnv, cwd |-> NoEnvFile, home |-> NoEnvFile ]

\* the config argument of the constructor
Configs ==
  [ apiKey       : {Undefined, <<>>, GoogleCfgKey},
    openaiApiKey : {Undefined, <<>>, OpenAICfgKey},
    outputDir    : {Undefined, <<>>, <<"out">>} ]

NoConfig ==
  [ apiKey |-> Undefined, openaiApiKey |-> Undefined, outputDir |-> Undefined ]

\* the configs of the clients whose calls Spec follows
CallConfigs ==
  [ apiKey       : {Undefined, GoogleCfgKey},
    openaiApiKey : {Undefined, OpenAICfgKey},
    outputDir    : {Undefined, <<"out">>} ]

\* the directories a client of Configs can name
OutputDirs == { Resolve(CtorOutputDir(cfg)) : cfg \in Configs }

\* entries of response.data: b64_json as the code reads it, and the MIME
\* type the provider declares for the part, which the code does not read
UrlEntry  == [ b64_json |-> Undefined, mimeType |-> "image/png" ]
PngEntry  == [ b64_json |-> <<"Q", "Q", "=", "=">>, mimeType |-> "image/png" ]
JpegEntry == [ b64_json |-> <<"U", "Q", "=", "=">>, mimeType |-> "image/jpeg" ]

DataSeqs ==
  { <<>>, <<UrlEntry>>, <<PngEntry>>, <<JpegEntry, PngEntry>>,
    <<PngEntry, UrlEntry, JpegEntry>> }

NoOutcome == [ rejects |-> FALSE, defined |-> FALSE, data |-> <<>>,
               text |-> Undefined ]

\* what openai.images.generate can do: reject, or resolve with data
\* undefined or a list of entries
ImageOutcomes ==
  { [NoOutcome EXCEPT !.rejects = TRUE], NoOutcome }
  \cup { [NoOutcome EXCEPT !.defined = TRUE, !.data = ds] : ds \in DataSeqs }

\* what generateContent + response.text() can do
TextOutcomes ==
  { [NoOutcome EXCEPT !.rejects = TRUE] }
  \cup { [NoOutcome EXCEPT !.text = t] : t \in {Undefined, <<>>, <<"Hello">>} }

\* the save and filename options of a generateImage call (an omitted
\* options argument reads as both undefined) and the value Date.now()
\* reads during it, which only a call that saves under a generated name uses
ImageCalls ==
  { [ save |-> "omitted", filename |-> Undefined,  ts |-> 0,
      options |-> NoImageOptions ],
    [ save |-> "omitted", filename |-> Undefined,  ts |-> 1,
      options |-> NoImageOptions ],
    [ save |-> "omitted", filename |-> <<"pic">>, ts |-> 0,
      options |-> NoImageOptions ],
    [ save |-> "true",    filename |-> Undefined,  ts |-> 0,
      options |-> NoImageOptions ],
    [ save |-> "false",   filename |-> Undefined,  ts |-> 0,
      options |-> NoImageOptions ],
    [ save |-> "false",   filename |-> <<"pic">>, ts |-> 0,
      options |-> NoImageOptions ] }

\* '' and three valid strings of 1, 2 and 3 bytes; 'Q' is not valid base64
Base64Inputs ==
  { <<>>, <<"Q">>, <<"Q", "Q", "=", "=">>, <<"Q", "U", "I", "=">>,
    <<"Q", "U", "I", "A">> }

\* texts that response.text() can return: no tag, one fragment alone and
\* inside other text, two fragments, a fragment in capitals, a closing tag
\* before the only opening tag, one fragment nested in another
SvgTexts ==
  { <<"x">>,
    <<"<svg>", "a", "</svg>">>,
    <<"x", "<svg>", "a", "</svg>", "y">>,
    <<"<svg>", "a", "</svg>", "x", "<svg>", "b", "</svg>">>,
    <<"<SVG>", "a", "</SVG>">>,
    <<"</svg>", "<svg>">>,
    <<"<svg>", "<svg>", "a", "</svg>", "</svg>">> }

SvgOutcomes ==
  { [NoOutcome EXCEPT !.rejects = TRUE] }
  \cup { [NoOutcome EXCEPT !.text = t] : t \in SvgTexts }

\* the save and filename options of a generateSvg call and the value that
\* Date.now() reads during it
SvgCalls ==
  { [ save |-> "omitted", filename |-> Undefined,  ts |-> 0 ],
    [ save |-> "omitted", filename |-> <<"pic">>, ts |-> 0 ],
    [ save |-> "false",   filename |-> Undefined,  ts |-> 0 ] }

SaveNames == { <<"a", ".", "png">>, <<"c", ".", "txt">> }

\* names that other programs leave in the output directory
ExternalNames == { <<"B", ".", "PNG">>, <<"c", ".", "txt">>, <<"notes", "png">> }

(* -------------------------------- state -------------------------------- *)

NoHealth == [ ok |-> FALSE, openai |-> FALSE, google |-> FALSE ]

\* the last call: its inputs and what it returned or threw (err # "")
NoLast ==
  [ op |-> "none", err |-> "", config |-> NoConfig, outcome |-> NoOutcome,
    save |-> "omitted", filename |-> Undefined, input |-> Undefined,
    probe |-> [ openai |-> FALSE, google |-> FALSE ],
    images |-> <<>>, text |-> Undefined, path |-> Undefined, paths |-> {},
    count |-> 0, health |-> NoHealth, net |-> 0, ts |-> 0,
    events |-> <<>>, got |-> [ outputDir |-> Undefined ],
    options |-> NoImageOptions, request |-> NoRequest ]

\* the output directories before any client exists: missing, or a regular
\* file in their place
Init ==
  /\ env = NoEnv
  /\ dirs \in { [d \in OutputDirs |-> k] : k \in {"absent", "file"} }
  /\ files = <<>>
  /\ client = NoClient
  /\ last = NoLast
  /\ running = <<>>
  /\ now = 0
  /\ sources = NoSources

\* new NanoBananaClient(config)
Construct(config) ==
  /\ ~client.made
  /\ LET k == CtorKeys(config, env)
     IN  IF CtorThrows(k.apiKey, k.openaiApiKey)
         THEN /\ last' = [NoLast EXCEPT !.op = "constructor",
                                        !.config = config,
                                        !.err = ErrApiKeyRequired]
              /\ UNCHANGED <<client, dirs>>
         ELSE /\ client' = NewClient(config, env)
              /\ dirs' = IF ExistsSync(dirs, CtorOutputDir(config))
                         THEN dirs
                         ELSE MkdirSync(dirs, CtorOutputDir(config))
              /\ last' = [NoLast EXCEPT !.op = "constructor",
                                        !.config = config]
  /\ UNCHANGED <<env, files, running, now, sources>>

FileCount(f) == Cardinality(DOMAIN f)

\* client.generateImage(prompt, { save, filename }), Date.now() reading ts
GenerateImage(outcome, call) ==
  /\ client.made
  /\ LET r == GenerateImageRun(client, dirs, files, outcome, call.save,
                               call.filename, call.ts)
     IN  /\ FileCount(r.files) <= MaxFiles
         /\ files' = r.files
         /\ last' = [NoLast EXCEPT !.op = "generateImage", !.err = r.err,
                                   !.outcome = outcome, !.save = call.save,
                                   !.filename = call.filename,
                                   !.images = r.images, !.net = r.net,
                                   !.ts = call.ts,
                                   !.events = AwaitedCalls("openai", r.net),
                                   !.options = call.options,
                                   !.request = IF r.net = 0 THEN NoRequest
                                               ELSE ImageRequest(call.options)]
  /\ UNCHANGED <<env, dirs, client, running, now, sources>>

\* client.generateSvg(prompt, { save, filename }), Date.now() reading ts
GenerateSvg(outcome, call) ==
  /\ client.made
  /\ LET r == GenerateSvgRun(client, dirs, files, outcome, call.save,
                             call.filename, call.ts)
     IN  /\ FileCount(r.files) <= MaxFiles
         /\ files' = r.files
         /\ last' = [NoLast EXCEPT !.op = "generateSvg", !.err = r.err,
                                   !.outcome = outcome, !.save = call.save,
                                   !.filename = call.filename,
                                   !.images = r.images, !.net = r.net,
                                   !.ts = call.ts,
                                   !.events = AwaitedCalls("google", r.net)]
  /\ UNCHANGED <<env, dirs, client, running, now, sources>>

\* client.saveImage(base64Data, filename)
SaveImage(base64Data, filename) ==
  /\ client.made
  /\ LET r == SaveImageRun(client, dirs, files, base64Data, filename)
     IN  /\ FileCount(r.files) <= MaxFiles
         /\ files' = r.files
         /\ last' = [NoLast EXCEPT !.op = "saveImage", !.err = r.err,
                                   !.input = base64Data, !.filename = filename,
                                   !.path = r.path]
  /\ UNCHANGED <<env, dirs, client, running, now, sources>>

\* client.generateText(prompt)
GenerateText(outcome) ==
  /\ client.made
  /\ LET r == GenerateTextRun(client, outcome)
     IN  last' = [NoLast EXCEPT !.op = "generateText", !.err = r.err,
                                !.outcome = outcome, !.text = r.text,
                                !.net = r.net,
                                !.events = AwaitedCalls("google", r.net)]
  /\ UNCHANGED <<env, dirs, files, client, running, now, sources>>

\* client.listSavedImages()
ListSavedImages ==
  /\ client.made
  /\ LET r == ListSavedImagesRun(client, dirs, files)
     IN  last' = [NoLast EXCEPT !.op = "listSavedImages", !.err = r.err,
                                !.paths = r.paths]
  /\ UNCHANGED <<env, dirs, files, client, running, now, sources>>

\* client.clearSavedImages()
ClearSavedImages ==
  /\ client.made
  /\ LET r == ClearSavedImagesRun(client, dirs, files)
     IN  /\ files' = r.files
         /\ last' = [NoLast EXCEPT !.op = "clearSavedImages", !.err = r.err,
                                   !.count = r.count]
  /\ UNCHANGED <<env, dirs, client, running, now, sources>>

\* client.healthCheck()
HealthCheck(openaiResolves, googleResolves) ==
  /\ client.made
  /\ LET r == HealthCheckRun(client, openaiResolves, googleResolves)
     IN  last' = [NoLast EXCEPT !.op = "healthCheck", !.err = r.err,
                                !.probe = [ openai |-> openaiResolves,
                                            google |-> googleResolves ],
                                !.health = r.health, !.net = r.net,
                                !.events = r.events]
  /\ UNCHANGED <<env, dirs, files, client, running, now, sources>>

\* client.getConfig()
GetConfig ==
  /\ client.made
  /\ last' = [NoLast EXCEPT !.op = "getConfig", !.got = GetConfigRun(client)]
  /\ UNCHANGED <<env, dirs, files, client, running, now, sources>>

\* another program writes an empty file into the client's output directory
ExternalWrite(name) ==
  /\ client.made
  /\ CanWrite(dirs, client.outputDir)
  /\ FileCount(files) < MaxFiles
  /\ Resolve(PathJoin(client.outputDir, name)) \notin DOMAIN files
  /\ files' = WriteFile(files, PathJoin(client.outputDir, name), 0)
  /\ last' = [NoLast EXCEPT !.op = "external", !.filename = name]
  /\ UNCHANGED <<env, dirs, client, running, now, sources>>

Next ==
  \/ \E config \in CallConfigs : Construct(config)
  \/ \E outcome \in ImageOutcomes, call \in ImageCalls :
        GenerateImage(outcome, call)
  \/ \E base64Data \in Base64Inputs, filename \in SaveNames :
        SaveImage(base64Data, filename)
  \/ \E outcome \in TextOutcomes : GenerateText(outcome)
  \/ ListSavedImages
  \/ ClearSavedImages
  \/ \E o \in BOOLEAN, g \in BOOLEAN : HealthCheck(o, g)
  \/ \E name \in ExternalNames : ExternalWrite(name)

Spec == Init /\ [][Next]_vars

\* construction alone, over every environment, config and directory state
InitCtor ==
  /\ env \in EnvValues
  /\ dirs \in [OutputDirs -> {"absent", "dir", "file"}]
  /\ files = <<>>
  /\ client = NoClient
  /\ last = NoLast
  /\ running = <<>>
  /\ now = 0
  /\ sources = NoSources

NextCtor == \E config \in Configs : Construct(config)

SpecCtor == InitCtor /\ [][NextCtor]_vars

\* every operation of one client, the image and save calls over fewer
\* inputs than in Spec
AllImageOutcomes ==
  { [NoOutcome EXCEPT !.rejects = TRUE] }
  \cup { [NoOutcome EXCEPT !.defined = TRUE, !.data = ds] :
           ds \in { <<PngEntry>>, <<JpegEntry, PngEntry>>,
                    <<PngEntry, UrlEntry, JpegEntry>> } }

AllImageCalls ==
  { [ save |-> "omitted", filename |-> Undefined,  ts |-> 0,
      options |-> NoImageOptions ],
    [ save |-> "omitted", filename |-> Undefined,  ts |-> 1,
      options |-> NoImageOptions ],
    [ save |-> "omitted", filename |-> <<"pic">>, ts |-> 0,
      options |-> NoImageOptions ],
    [ save |-> "false",   filename |-> Undefined,  ts |-> 0,
      options |-> NoImageOptions ],
    [ save |-> "false", filename |-> Undefined, ts |-> 0,
      options |-> [NoImageOptions EXCEPT
                     !.model = <<"gemini-3-pro-image-preview">>,
                     !.aspectRatio = <<"16:9">>, !.imageSize = <<"4K">>] ],
    [ save |-> "false", filename |-> Undefined, ts |-> 0,
      options |-> [NoImageOptions EXCEPT
                     !.model = <<"gemini-2.5-flash-image">>,
                     !.imageSize = <<"4K">>] ],
    [ save |-> "false", filename |-> Undefined, ts |-> 0,
      options |-> [NoImageOptions EXCEPT
                     !.model = <<"dall-e-2">>, !.size = <<"512x512">>,
                     !.quality = <<"hd">>] ] }

NextAll ==
  \/ \E config \in CallConfigs : Construct(config)
  \/ \E outcome \in AllImageOutcomes, call \in AllImageCalls :
        GenerateImage(outcome, call)
  \/ \E outcome \in SvgOutcomes, call \in SvgCalls : GenerateSvg(outcome, call)
  \/ SaveImage(<<"Q", "Q", "=", "=">>, <<"a", ".", "png">>)
  \/ \E outcome \in TextOutcomes : GenerateText(outcome)
  \/ ListSavedImages
  \/ ClearSavedImages
  \/ \E o \in BOOLEAN, g \in BOOLEAN : HealthCheck(o, g)
  \/ GetConfig

SpecAll == Init /\ [][NextAll]_vars

\* the module is loaded, then a client is constructed, over every start
\* environment and every pair of .env files
InitEnv ==
  /\ sources \in SourceSets
  /\ env = sources.shell
  /\ dirs = [d \in OutputDirs |-> "absent"]
  /\ files = <<>>
  /\ client = NoClient
  /\ last = NoLast
  /\ running = <<>>
  /\ now = 0

\* the import of the module runs the loading loop
LoadModule ==
  /\ last.op = "none"
  /\ env' = LoadEnv(env, sources.cwd, sources.home)
  /\ last' = [NoLast EXCEPT !.op = "load"]
  /\ UNCHANGED <<dirs, files, client, running, now, sources>>

\* new NanoBananaClient(config) once the module has been loaded
ConstructLoaded(config) ==
  /\ last.op = "load"
  /\ Construct(config)

NextEnv ==
  \/ LoadModule
  \/ \E config \in Configs : ConstructLoaded(config)

SpecEnv == InitEnv /\ [][NextEnv]_vars

(* --------------------------- overlapping calls -------------------------- *)

\* A call of an async method runs from one await to the next without
\* interruption; the calls in `running` interleave at their awaits.

NoCall ==
  [ op |-> "none", pc |-> "done", err |-> "", with |-> {},
    filename |-> Undefined, data |-> <<>>, k |-> 0, name |-> Undefined,
    bytes |-> Undefined, todo |-> {}, listed |-> 0, deleted |-> 0,
    wrote |-> {}, paths |-> {}, count |-> 0, stream |-> "none",
    result |-> Undefined ]

ErrUnlink == "ENOENT: no such file or directory, unlink"

Settled(call) == call.pc \in {"done", "failed"}

\* the calls that have started and not yet settled
InFlight == { i \in 1..Len(running) : ~Settled(running[i]) }

Started(call) ==
  /\ Len(running) < MaxCalls
  /\ running' = Append(running, [call EXCEPT !.with = InFlight])
  /\ UNCHANGED <<env, dirs, files, client, last, now, sources>>

\* generateImage(prompt) is called: the handle test, then the request
BeginGenerateImage ==
  Started(IF ~client.openai
          THEN [NoCall EXCEPT !.op = "generateImage", !.pc = "failed",
                              !.err = ErrOpenAIRequired]
          ELSE [NoCall EXCEPT !.op = "generateImage", !.pc = "request"])

\* generateSvg(prompt) is called: the handle test, then the request
BeginGenerateSvg ==
  Started(IF ~client.genAI
          THEN [NoCall EXCEPT !.op = "generateSvg", !.pc = "failed",
                              !.err = ErrGoogleRequiredSvg]
          ELSE [NoCall EXCEPT !.op = "generateSvg", !.pc = "request"])

\* saveImage(base64Data, filename) is called: writeFile is issued
BeginSaveImage(base64Data, filename) ==
  Started([NoCall EXCEPT !.op = "saveImage", !.pc = "write",
                         !.name = filename, !.bytes = base64Data])

\* listSavedImages() is called: readdir is issued
BeginListSavedImages ==
  Started([NoCall EXCEPT !.op = "listSavedImages", !.pc = "readdir"])

\* clearSavedImages() is called: it calls listSavedImages()
BeginClearSavedImages ==
  Started([NoCall EXCEPT !.op = "clearSavedImages", !.pc = "readdir"])

\* the loop of generateImage from entry k of the response: the next entry
\* with data is named, reading Date.now(), and saveImage is called for it
RECURSIVE NextEntry(_, _)
NextEntry(call, k) ==
  IF k > Len(call.data) THEN [call EXCEPT !.pc = "done", !.k = k]
  ELSE IF ~HasImage(call.data[k]) THEN NextEntry(call, k + 1)
  ELSE [call EXCEPT !.pc = "write", !.k = k,
                    !.name = ImageFilename(call.filename, k - 1, now),
                    !.bytes = call.data[k].b64_json]

\* images.generate of call i resolves
ImageResponse(i, outcome) ==
  /\ i \in 1..Len(running)
  /\ running[i].op = "generateImage" /\ running[i].pc = "request"
  /\ running' =
       [running EXCEPT ![i] =
          IF outcome.rejects
          THEN [@ EXCEPT !.pc = "failed", !.err = ErrProvider]
          ELSE IF EmptyResponse(outcome)
          THEN [@ EXCEPT !.pc = "failed", !.err = ErrNoImageData]
          ELSE NextEntry([@ EXCEPT !.data = outcome.data], 1)]
  /\ UNCHANGED <<env, dirs, files, client, last, now, sources>>

\* generateContent of call i resolves: the match, then writeFile is issued
\* under a name that reads Date.now()
SvgResponse(i, outcome) ==
  /\ i \in 1..Len(running)
  /\ running[i].op = "generateSvg" /\ running[i].pc = "request"
  /\ running' =
       [running EXCEPT ![i] =
          IF outcome.rejects
          THEN [@ EXCEPT !.pc = "failed", !.err = ErrProvider]
          ELSE IF SvgMatch(outcome.text) = Null
          THEN [@ EXCEPT !.pc = "failed", !.err = ErrNoSvg]
          ELSE [@ EXCEPT !.pc = "write",
                         !.name = SvgFilename(running[i].filename, now),
                         !.bytes = SvgMatch(outcome.text)]]
  /\ UNCHANGED <<env, dirs, files, client, last, now, sources>>

\* the writeFile of call i completes; generateImage goes on with its loop
WriteDone(i) ==
  /\ i \in 1..Len(running)
  /\ running[i].pc = "write"
  /\ LET call == running[i]
         filePath == PathJoin(client.outputDir, call.name)
         size == IF call.op = "generateSvg" THEN Len(call.bytes)
                 ELSE Base64Bytes(call.bytes)
     IN  IF ~CanWrite(dirs, client.outputDir)
         THEN /\ running' = [running EXCEPT ![i].pc = "failed",
                                            ![i].err = ErrWrite]
              /\ UNCHANGED files
         ELSE /\ FileCount(WriteFile(files, filePath, size)) <= MaxFiles
              /\ files' = WriteFile(files, filePath, size)
              /\ running' =
                   [running EXCEPT ![i] =
                      LET w == [call EXCEPT !.wrote = @ \cup {filePath}]
                      IN  IF call.op = "generateImage"
                          THEN NextEntry(w, call.k + 1)
                          ELSE [w EXCEPT !.pc = "done"]]
  /\ UNCHANGED <<env, dirs, client, last, now, sources>>

\* the readdir of call i completes: listSavedImages returns the filtered
\* paths, and clearSavedImages starts to unlink them
ReadDirDone(i) ==
  /\ i \in 1..Len(running)
  /\ running[i].pc = "readdir"
  /\ LET ls == ListSavedImagesRun(client, dirs, files)
     IN  running' =
           [running EXCEPT ![i] =
              IF ls.err # ""
              THEN [@ EXCEPT !.pc = "failed", !.err = ls.err]
              ELSE IF @.op = "listSavedImages"
              THEN [@ EXCEPT !.pc = "done", !.paths = ls.paths]
              ELSE IF ls.paths = {}
              THEN [@ EXCEPT !.pc = "done", !.count = 0]
              ELSE [@ EXCEPT !.pc = "unlink", !.todo = ls.paths,
                             !.listed = Cardinality(ls.paths)]]
  /\ UNCHANGED <<env, dirs, files, client, last, now, sources>>

\* the unlink of path p by call i completes; after the last one
\* clearSavedImages returns images.length
UnlinkDone(i, p) ==
  /\ i \in 1..Len(running)
  /\ running[i].pc = "unlink"
  /\ p \in running[i].todo
  /\ IF Resolve(p) \in DOMAIN files
     THEN /\ files' = Unlink(files, {p})
          /\ running' =
               [running EXCEPT ![i] =
                  [@ EXCEPT !.todo = @ \ {p}, !.deleted = @ + 1,
                            !.pc = IF running[i].todo = {p}
                                   THEN "done" ELSE "unlink",
                            !.count = IF running[i].todo = {p}
                                      THEN running[i].listed ELSE 0]]
     ELSE /\ running' = [running EXCEPT ![i].pc = "failed",
                                        ![i].err = ErrUnlink]
          /\ UNCHANGED files
  /\ UNCHANGED <<env, dirs, client, last, now, sources>>

\* a millisecond passes
Tick ==
  /\ now < MaxNow
  /\ now' = now + 1
  /\ UNCHANGED <<env, dirs, files, client, last, running, sources>>

\* a client with both keys and the default output directory, constructed
\* where that directory was missing
ConcConfig ==
  [ apiKey |-> GoogleCfgKey, openaiApiKey |-> OpenAICfgKey,
    outputDir |-> Undefined ]

InitConc ==
  /\ env = NoEnv
  /\ dirs = MkdirSync([d \in OutputDirs |-> "absent"], CtorOutputDir(ConcConfig))
  /\ files = <<>>
  /\ client = NewClient(ConcConfig, NoEnv)
  /\ last = NoLast
  /\ running = <<>>
  /\ now = 0
  /\ sources = NoSources

ConcImageOutcomes ==
  { [NoOutcome EXCEPT !.defined = TRUE, !.data = <<PngEntry>>] }

ConcSvgOutcomes ==
  { [NoOutcome EXCEPT !.text = <<"<svg>", "a", "</svg>">>] }

NextConc ==
  \/ BeginGenerateImage
  \/ BeginGenerateSvg
  \/ \E filename \in SaveNames : BeginSaveImage(<<"Q", "Q", "=", "=">>, filename)
  \/ BeginListSavedImages
  \/ BeginClearSavedImages
  \/ \E i \in 1..MaxCalls, outcome \in ConcImageOutcomes :
        ImageResponse(i, outcome)
  \/ \E i \in 1..MaxCalls, outcome \in ConcSvgOutcomes : SvgResponse(i, outcome)
  \/ \E i \in 1..MaxCalls : WriteDone(i)
  \/ \E i \in 1..MaxCalls : ReadDirDone(i)
  \/ \E i \in 1..MaxCalls, p \in UNION { running[j].todo : j \in 1..Len(running) } :
        UnlinkDone(i, p)
  \/ Tick

SpecConc == InitConc /\ [][NextConc]_vars

(* ----------------------------- downloadImage --------------------------- *)

\* A downloadImage call is a promise over two event emitters: the request
\* with its response (pc) and the write stream (stream).  The promise is
\* settled by resolve, in the 'finish' listener of the write stream, or by
\* reject, in the 'error' listener of the request; no other listener exists.

ErrRequest == "request error"

\* the body of the response, one byte a token
DownloadBody == <<"b">>

\* downloadImage(url, filename) is called: createWriteStream starts to
\* open the file and https.get issues the request
BeginDownloadImage(filename) ==
  Started([NoCall EXCEPT !.op = "downloadImage", !.pc = "request",
                         !.name = filename, !.stream = "opening"])

\* the write stream of call i opens its file, creating it empty, or fails
\* to and emits 'error', which has no listener
OpenDone(i) ==
  /\ i \in 1..Len(running)
  /\ running[i].op = "downloadImage" /\ running[i].stream = "opening"
  /\ LET filePath == PathJoin(client.outputDir, running[i].name)
     IN  IF CanWrite(dirs, client.outputDir)
         THEN /\ FileCount(WriteFile(files, filePath, 0)) <= MaxFiles
              /\ files' = WriteFile(files, filePath, 0)
              /\ running' = [running EXCEPT ![i].stream = "open"]
         ELSE /\ running' = [running EXCEPT ![i].stream = "error"]
              /\ UNCHANGED files
  /\ UNCHANGED <<env, dirs, client, last, now, sources>>

\* the request of call i emits 'error' before any response: the listener
\* unlinks the file, ignoring the outcome, and rejects
RequestError(i) ==
  /\ i \in 1..Len(running)
  /\ running[i].op = "downloadImage" /\ running[i].pc = "request"
  /\ files' = Unlink(files, {PathJoin(client.outputDir, running[i].name)})
  /\ running' = [running EXCEPT ![i].pc = "failed", ![i].err = ErrRequest]
  /\ UNCHANGED <<env, dirs, client, last, now, sources>>

\* the response of call i arrives: response.pipe(file), file.on('finish')
ResponseArrives(i) ==
  /\ i \in 1..Len(running)
  /\ running[i].op = "downloadImage" /\ running[i].pc = "request"
  /\ running' = [running EXCEPT ![i].pc = "piping"]
  /\ UNCHANGED <<env, dirs, files, client, last, now, sources>>

\* the response stream of call i ends: pipe ends the write stream
ResponseEnds(i) ==
  /\ i \in 1..Len(running)
  /\ running[i].op = "downloadImage" /\ running[i].pc = "piping"
  /\ running' = [running EXCEPT ![i].pc = "ended"]
  /\ UNCHANGED <<env, dirs, files, client, last, now, sources>>

\* the connection of call i closes before the body is complete: the
\* response emits 'aborted' and 'error', the request emits nothing, and
\* pipe leaves the write stream open
ResponseError(i) ==
  /\ i \in 1..Len(running)
  /\ running[i].op = "downloadImage" /\ running[i].pc = "piping"
  /\ running' = [running EXCEPT ![i].pc = "aborted"]
  /\ UNCHANGED <<env, dirs, files, client, last, now, sources>>

\* a write of the open stream of call i fails: the stream emits 'error',
\* which has no listener, and never emits 'finish'
WriteError(i) ==
  /\ i \in 1..Len(running)
  /\ running[i].op = "downloadImage" /\ running[i].stream = "open"
  /\ running[i].pc \in {"piping", "ended"}
  /\ running' = [running EXCEPT ![i].stream = "error"]
  /\ UNCHANGED <<env, dirs, files, client, last, now, sources>>

\* the ended write stream of call i has flushed the body and emits
\* 'finish': file.close(); resolve(filePath)
Finish(i) ==
  /\ i \in 1..Len(running)
  /\ running[i].op = "downloadImage"
  /\ running[i].pc = "ended" /\ running[i].stream = "open"
  /\ LET filePath == PathJoin(client.outputDir, running[i].name)
     IN  /\ FileCount(WriteFile(files, filePath, Len(DownloadBody))) <= MaxFiles
         /\ files' = WriteFile(files, filePath, Len(DownloadBody))
         /\ running' = [running EXCEPT ![i].pc = "done",
                                       ![i].stream = "finished",
                                       ![i].result = filePath]
  /\ UNCHANGED <<env, dirs, client, last, now, sources>>

DownloadNames == { <<"a", ".", "png">>, <<"d", ".", "jpg">> }

NextDownload ==
  \/ \E filename \in DownloadNames : BeginDownloadImage(filename)
  \/ \E i \in 1..MaxCalls : OpenDone(i)
  \/ \E i \in 1..MaxCalls : RequestError(i)
  \/ \E i \in 1..MaxCalls : ResponseArrives(i)
  \/ \E i \in 1..MaxCalls : ResponseEnds(i)
  \/ \E i \in 1..MaxCalls : ResponseError(i)
  \/ \E i \in 1..MaxCalls : WriteError(i)
  \/ \E i \in 1..MaxCalls : Finish(i)

\* every event that can occur does occur in the end
SpecDownload ==
  InitConc /\ [][NextDownload]_vars /\ WF_vars(NextDownload)

(* ------------------------------- claims -------------------------------- *)

\* a key that a caller or the environment actually supplies
KeyGiven(v) == v # Undefined /\ Len(v) > 0

NoCredential(config, e) ==
  /\ ~KeyGiven(config.apiKey)
  /\ ~KeyGiven(e.NanoBanana_ApiKey)
  /\ ~KeyGiven(config.openaiApiKey)
  /\ ~KeyGiven(e.OPENAI_API_KEY)

\* C1: constructing with no Google key and no OpenAI key, in the config or
\* in the environment, fails with the configuration error and yields no
\* client; constructing with at least one key present succeeds.
C1_Construction ==
  last.op = "constructor" =>
    IF NoCredential(last.config, env)
    THEN last.err = ErrApiKeyRequired /\ ~client.made
    ELSE last.err = "" /\ client.made

C1_Witness ==
  /\ last.op = "constructor"
  /\ last.config.apiKey = <<>>
  /\ env.NanoBanana_ApiKey = Undefined
  /\ last.err = ErrApiKeyRequired

\* the provider answered the last generateImage call
ImageAnswered ==
  last.op = "generateImage" /\ last.net = 1 /\ ~last.outcome.rejects

\* the entries of a response that carry image data
ImageParts(data) ==
  SelectSeq(data, LAMBDA e : e.b64_json # Undefined /\ Len(e.b64_json) > 0)

\* C2: generateImage raises the empty-response error whenever the provider's
\* response holds zero entries, for every option combination.
C2_EmptyResponse ==
  (ImageAnswered /\ (~last.outcome.defined \/ last.outcome.data = <<>>))
    => last.err = ErrNoImageData

C2_Witness ==
  /\ ImageAnswered
  /\ last.outcome.defined
  /\ last.outcome.data = <<>>
  /\ last.save = "false"
  /\ last.err = ErrNoImageData

\* C3: generateImage raises an error whenever the response is non-empty but
\* holds no image part, and never returns an empty list of images.
C3_NoMedia ==
  /\ (ImageAnswered /\ last.outcome.defined /\ last.outcome.data # <<>>
        /\ ImageParts(last.outcome.data) = <<>>) => last.err # ""
  /\ (last.op = "generateImage" /\ last.err = "") => last.images # <<>>

\* the last generateImage call got n >= 1 image parts and no write failed
ImagePartsReturned ==
  /\ ImageAnswered
  /\ last.outcome.defined
  /\ ImageParts(last.outcome.data) # <<>>
  /\ last.err # ErrWrite

\* C4 as stated: n image parts give exactly n images in response order, the
\* i-th with the part's data and the part's declared MIME type.
C4_DeclaredMime ==
  ImagePartsReturned =>
    LET parts == ImageParts(last.outcome.data)
    IN  /\ last.err = ""
        /\ Len(last.images) = Len(parts)
        /\ \A i \in 1..Len(parts) :
             /\ last.images[i].data = parts[i].b64_json
             /\ last.images[i].mimeType = parts[i].mimeType

\* C4 amended: n image parts give exactly n images in response order, the
\* i-th with the part's data and the MIME type image/png.
C4_OrderedPng ==
  ImagePartsReturned =>
    LET parts == ImageParts(last.outcome.data)
    IN  /\ last.err = ""
        /\ Len(last.images) = Len(parts)
        /\ \A i \in 1..Len(parts) :
             /\ last.images[i].data = parts[i].b64_json
             /\ last.images[i].mimeType = "image/png"

C4_Witness ==
  /\ ImagePartsReturned
  /\ Len(last.outcome.data) = 3
  /\ Len(last.images) = 2
  /\ last.images[2].data = JpegEntry.b64_json

\* the file that path p names exists directly in the output directory
InOutputDir(p) ==
  \E n \in ReadDir(files, client.outputDir) :
    /\ p = PathJoin(client.outputDir, n)
    /\ Resolve(p) \in DOMAIN files

\* C5: in a successful generateImage call with save not false (also when
\* omitted) every returned image has a filePath naming a file that exists
\* in the output directory; with save false no returned image has a
\* filePath and the call writes no file.
C5_SaveOption ==
  /\ [] ((last.op = "generateImage" /\ last.err = "") =>
           \A i \in 1..Len(last.images) :
             IF last.save = "false"
             THEN last.images[i].filePath = Undefined
             ELSE /\ last.images[i].filePath # Undefined
                  /\ InOutputDir(last.images[i].filePath))
  /\ [][(last'.op = "generateImage" /\ last'.save = "false")
           => files' = files]_vars

C5_Witness ==
  /\ last.op = "generateImage"
  /\ last.err = ""
  /\ last.save = "omitted"
  /\ Len(last.images) = 2
  /\ \A i \in 1..2 : InOutputDir(last.images[i].filePath)

\* RFC 4648 base64 over the model's alphabet: whole quads, '=' only as the
\* last one or two characters
ValidBase64(s) ==
  /\ Len(s) % 4 = 0
  /\ \A i \in 1..Len(s) :
       \/ s[i] \in B64Alphabet
       \/ s[i] = "=" /\ i > Len(s) - 2 /\ \A j \in i..Len(s) : s[j] = "="

\* C6: for valid base64 input, once saveImage has returned, a file exists
\* at the returned path, of more than zero bytes whenever the input is
\* non-empty.
C6_SavedFileExists ==
  (last.op = "saveImage" /\ last.err = "" /\ ValidBase64(last.input)) =>
    /\ last.path # Undefined
    /\ Resolve(last.path) \in DOMAIN files
    /\ (last.input # <<>> => files[Resolve(last.path)] > 0)

C6_Witness ==
  /\ last.op = "saveImage"
  /\ last.err = ""
  /\ last.input = <<"Q", "Q", "=", "=">>
  /\ Resolve(last.path) \in DOMAIN files
  /\ files[Resolve(last.path)] = 1

AllowList == {"png", "jpg", "jpeg", "gif", "webp", "svg"}

\* the paths of the entries of the output directory that end in a dot and
\* an extension for which ok holds
EntriesWithExtension(ok(_)) ==
  { PathJoin(client.outputDir, n) :
      n \in { m \in ReadDir(files, client.outputDir) :
                Len(m) >= 2 /\ m[Len(m) - 1] = "." /\ ok(m[Len(m)]) } }

\* C7 as stated: listSavedImages returns exactly the full paths of the
\* entries whose extension is in the allow-list.
C7_ExactExtension ==
  (last.op = "listSavedImages" /\ last.err = "") =>
    last.paths = EntriesWithExtension(LAMBDA x : x \in AllowList)

\* C7 amended: listSavedImages returns exactly the full paths of the
\* entries whose extension is in the allow-list when letter case is ignored.
C7_ExtensionIgnoringCase ==
  (last.op = "listSavedImages" /\ last.err = "") =>
    last.paths = EntriesWithExtension(LAMBDA x : Lower(x) \in AllowList)

C7_Witness ==
  /\ last.op = "listSavedImages"
  /\ last.err = ""
  /\ Cardinality(last.paths) = 1
  /\ FileCount(files) = 2

\* the image files held by the client's output directory in file system f
ImageFilesIn(f) ==
  { q \in DOMAIN f :
      \E n \in ReadDir(f, client.outputDir) :
        /\ q = Resolve(PathJoin(client.outputDir, n))
        /\ Len(n) >= 2 /\ n[Len(n) - 1] = "." /\ Lower(n[Len(n)]) \in AllowList }

\* C8: clearSavedImages on a directory of N image files and M other files
\* deletes exactly the N image files, returns N and leaves the M others;
\* afterwards listSavedImages returns the empty list.
C8_ClearImages ==
  [][(last'.op = "clearSavedImages" /\ last'.err = "") =>
       /\ DOMAIN files' = DOMAIN files \ ImageFilesIn(files)
       /\ \A q \in DOMAIN files' : files'[q] = files[q]
       /\ last'.count = Cardinality(ImageFilesIn(files))
       /\ ListSavedImagesRun(client', dirs', files').err = ""
       /\ ListSavedImagesRun(client', dirs', files').paths = {}]_vars

C8_Witness ==
  /\ last.op = "clearSavedImages"
  /\ last.err = ""
  /\ last.count = 1
  /\ FileCount(files) = 1

\* C9: healthCheck never raises; each provider's flag is true exactly when
\* the provider is configured and its call resolved, and ok is true exactly
\* when some flag is.
C9_HealthCheck ==
  last.op = "healthCheck" =>
    /\ last.err = ""
    /\ last.health.openai = (client.openai /\ last.probe.openai)
    /\ last.health.google = (client.genAI /\ last.probe.google)
    /\ last.health.ok = (last.health.openai \/ last.health.google)

C9_Witness ==
  /\ last.op = "healthCheck"
  /\ client.openai /\ client.genAI
  /\ ~last.probe.openai /\ last.probe.google
  /\ last.health = [ ok |-> TRUE, openai |-> FALSE, google |-> TRUE ]

\* C10: generateText fails whenever the provider returns no text (empty or
\* undefined) and returns the provider's text only when it is present.
C10_NoText ==
  /\ (last.op = "generateText" /\ last.net = 1 /\ ~last.outcome.rejects
        /\ (last.outcome.text = Undefined \/ last.outcome.text = <<>>))
       => last.err # ""
  /\ (last.op = "generateText" /\ last.err = "")
       => (last.text # Undefined /\ last.text # <<>>)

\* the provider answered the last generateSvg call
SvgAnswered ==
  last.op = "generateSvg" /\ last.net = 1 /\ ~last.outcome.rejects

\* the text holds an opening tag with a closing tag after it
HasFragment(text) ==
  \E i \in SvgOpens(text), j \in SvgCloses(text) : i < j

\* from the first opening tag that a closing tag follows to the last
\* closing tag of the text
FirstToLast(text) ==
  SubSeq(text,
         Min({ i \in SvgOpens(text) : \E j \in SvgCloses(text) : j > i }),
         Max(SvgCloses(text)))

\* C11 as stated: for every provider text with at least one <svg>...</svg>
\* fragment, generateSvg returns as data the substring from the first
\* opening tag to the first closing tag that follows it, also when the
\* text holds several fragments.
C11_FirstFragment ==
  (SvgAnswered /\ HasFragment(last.outcome.text) /\ last.err = "") =>
    /\ Len(last.images) = 1
    /\ last.images[1].data = SvgMatchLazy(last.outcome.text)

\* C11: for every provider text with at least one <svg>...</svg> fragment,
\* generateSvg returns as data the substring from the first opening tag to
\* the last closing tag of the text; with several fragments that is the
\* span from the first fragment's opening tag to the last fragment's
\* closing tag.
C11_FirstToLast ==
  (SvgAnswered /\ HasFragment(last.outcome.text)) =>
    /\ last.err # ErrNoSvg
    /\ last.err = "" =>
         /\ Len(last.images) = 1
         /\ last.images[1].data = FirstToLast(last.outcome.text)
         /\ last.images[1].mimeType = "image/svg+xml"

C11_Witness ==
  /\ last.op = "generateSvg"
  /\ last.err = ""
  /\ last.outcome.text = <<"<svg>", "a", "</svg>", "x", "<svg>", "b", "</svg>">>
  /\ last.images[1].data = last.outcome.text

\* C12: generateSvg fails with the no-SVG error exactly when the text the
\* provider returned holds no matchable fragment, and the failing call
\* writes no file.
C12_NoSvg ==
  /\ [](SvgAnswered =>
          (last.err = ErrNoSvg <=> ~HasFragment(last.outcome.text)))
  /\ [][(last'.op = "generateSvg" /\ last'.err = ErrNoSvg) =>
          files' = files]_vars

C12_Witness ==
  /\ last.op = "generateSvg"
  /\ last.err = ErrNoSvg
  /\ last.outcome.text = <<"</svg>", "<svg>">>
  /\ last.save = "omitted"

\* the error of the operation op when its provider handle is missing
MissingProviderError(op) ==
  CASE op = "generateImage" -> ErrOpenAIRequired
    [] op = "generateText"  -> ErrGoogleRequiredText
    [] op = "generateSvg"   -> ErrGoogleRequiredSvg

\* op needs a provider for which client c holds no handle
MissingProvider(op, c) ==
  \/ op = "generateImage" /\ ~c.openai
  \/ op \in {"generateText", "generateSvg"} /\ ~c.genAI

C14_OutputDirExists ==
  client.made => dirs[Resolve(client.outputDir)] = "dir"

PublicOperations ==
  { "generateImage", "generateText", "generateSvg", "healthCheck",
    "saveImage", "listSavedImages", "clearSavedImages" }

\* the requests of the first k events that have not settled
Outstanding(events, k) ==
  Cardinality({ i \in 1..k : events[i][1] = "request" })
    - Cardinality({ i \in 1..k : events[i][1] = "settled" })

Requests(events) ==
  Cardinality({ i \in 1..Len(events) : events[i][1] = "request" })

\* no two requests of the call were outstanding at once, and none was
\* left outstanding when the call returned
OneAtATime(events) ==
  /\ \A k \in 0..Len(events) : Outstanding(events, k) \in {0, 1}
  /\ Outstanding(events, Len(events)) = 0

Handles(c) == (IF c.openai THEN 1 ELSE 0) + (IF c.genAI THEN 1 ELSE 0)

\* C15 as stated: every public operation, for every client configuration,
\* issues at most one outbound network call per invocation and awaits it
\* before returning, and never has two calls outstanding at once.
C15_AtMostOneCall ==
  last.op \in PublicOperations =>
    /\ Requests(last.events) <= 1
    /\ OneAtATime(last.events)

\* C15: every public operation other than healthCheck issues at most one
\* outbound network call per invocation; healthCheck issues one call per
\* configured provider, two when both keys are set; every operation awaits
\* each call before it issues the next or returns, so that no operation has
\* two network calls outstanding at once.
C15_OneCallPerProvider ==
  last.op \in PublicOperations =>
    /\ last.net = Requests(last.events)
    /\ OneAtATime(last.events)
    /\ last.op # "healthCheck" => last.net <= 1
    /\ last.op \in {"saveImage", "listSavedImages", "clearSavedImages"} =>
         last.net = 0
    /\ last.op = "healthCheck" => last.net = Handles(client)

C15_Witness ==
  /\ last.op = "healthCheck"
  /\ client.openai /\ client.genAI
  /\ last.net = 2
  /\ last.events = Awaited("openai") \o Awaited("google")

\* calls i and j were in flight at the same time
Concurrent(i, j) == i \in running[j].with \/ j \in running[i].with

\* a generateImage or generateSvg call that saves under a generated name
SavingGeneration(call) ==
  /\ call.op \in {"generateImage", "generateSvg"}
  /\ call.filename = Undefined

\* C16: two concurrent generateImage / generateSvg calls that save with no
\* caller-supplied filename write to distinct paths of the output
\* directory, so neither overwrites a file of the other.
C16_DistinctPaths ==
  \A i, j \in 1..Len(running) :
    (/\ i # j
     /\ Concurrent(i, j)
     /\ SavingGeneration(running[i])
     /\ SavingGeneration(running[j])) =>
      running[i].wrote \cap running[j].wrote = {}

\* only saveImage, listSavedImages and clearSavedImages calls have been
\* made, the saves under distinct filenames
PersistenceCallsOnly ==
  /\ \A i \in 1..Len(running) :
       running[i].op \in {"saveImage", "listSavedImages", "clearSavedImages"}
  /\ \A i, j \in 1..Len(running) :
       (i # j /\ running[i].op = "saveImage" /\ running[j].op = "saveImage")
         => running[i].name # running[j].name

\* C17: in every interleaving of saveImage, listSavedImages and
\* clearSavedImages calls, the saves under distinct filenames, no call
\* fails, and a clearSavedImages call that has returned returns the number
\* of files that it deleted itself.
C17_NoInterference ==
  PersistenceCallsOnly =>
    \A i \in 1..Len(running) :
      /\ running[i].pc # "failed"
      /\ (running[i].op = "clearSavedImages" /\ running[i].pc = "done") =>
           running[i].count = running[i].deleted

\* the file extension that belongs to a MIME type
Extension(mimeType) ==
  CASE mimeType = "image/png"     -> "png"
    [] mimeType = "image/jpeg"    -> "jpeg"
    [] mimeType = "image/svg+xml" -> "svg"

\* the positions (from 0) in response.data of the entries that carry data
RECURSIVE PartIndices(_, _)
PartIndices(data, k) ==
  IF k > Len(data) THEN <<>>
  ELSE (IF data[k].b64_json # Undefined /\ Len(data[k].b64_json) > 0
        THEN <<k - 1>> ELSE <<>>) \o PartIndices(data, k + 1)

\* the last call was a generation call of kind op that saved what it returned
Saved(op) ==
  /\ last.op = op
  /\ last.err = ""
  /\ last.save # "false"
  /\ Len(last.images) > 0

\* the name of the file of the last call's n-th image
SavedAs(n, name) ==
  last.images[n].filePath = PathJoin(client.outputDir, name)

SvgNamed ==
  Saved("generateSvg") =>
    SavedAs(1, IF KeyGiven(last.filename)
               THEN last.filename \o <<".", "svg">>
               ELSE <<"svg", "_", ToString(last.ts), ".", "svg">>)

GeneratedImageName(n) ==
  <<"image", "_", ToString(last.ts), "_",
    ToString(PartIndices(last.outcome.data, 1)[n]), ".",
    Extension(last.images[n].mimeType)>>

\* C18 as stated: a saved image of generateImage is named <base>.<ext>
\* when a filename option was given and image_<timestamp>_<index>.<ext>
\* otherwise, <ext> the extension of the image's MIME type; generateSvg
\* names its file <base>.svg or svg_<timestamp>.svg.
C18_BaseName ==
  /\ Saved("generateImage") =>
       \A n \in 1..Len(last.images) :
         SavedAs(n, IF KeyGiven(last.filename)
                    THEN last.filename
                           \o <<".", Extension(last.images[n].mimeType)>>
                    ELSE GeneratedImageName(n))
  /\ SvgNamed

\* C18: a saved image of generateImage that comes from entry <index> of
\* the response (from 0) is named, when a filename option was given,
\* <base>.<ext> for index 0 and <base>_<index>.<ext> for a later entry, and
\* image_<timestamp>_<index>.<ext> otherwise, <ext> the extension png of
\* the image's MIME type; generateSvg names its file <base>.svg or
\* svg_<timestamp>.svg.
C18_BaseNameIndexed ==
  /\ Saved("generateImage") =>
       \A n \in 1..Len(last.images) :
         LET index == PartIndices(last.outcome.data, 1)[n]
         IN  SavedAs(n, IF KeyGiven(last.filename)
                        THEN last.filename
                               \o (IF index > 0 THEN <<"_", ToString(index)>>
                                   ELSE <<>>)
                               \o <<".", Extension(last.images[n].mimeType)>>
                        ELSE GeneratedImageName(n))
  /\ SvgNamed

C18_Witness ==
  /\ Saved("generateImage")
  /\ last.filename = <<"pic">>
  /\ Len(last.images) = 2
  /\ last.outcome.data = <<PngEntry, UrlEntry, JpegEntry>>
  /\ SavedAs(2, <<"pic", "_", "2", ".", "png">>)

\* C19 as stated: saveImage writes the decoded bytes to
\* <outputDir>/<filename> and returns the absolute path of that file,
\* whatever output directory the client was constructed with.
C19_AbsolutePath ==
  (last.op = "saveImage" /\ last.err = "") =>
    /\ Resolve(last.path) = Resolve(PathJoin(client.outputDir, last.filename))
    /\ Resolve(last.path) \in DOMAIN files
    /\ files[Resolve(last.path)] = Base64Bytes(last.input)
    /\ IsAbsolute(last.path)

\* C19: saveImage writes the decoded bytes to <outputDir>/<filename> and
\* returns the path joined from the output directory as it was given and
\* the filename: the absolute path of the file when the output directory
\* is absolute, as the default one is, and a path relative to the working
\* directory when the client was constructed with a relative one.
C19_JoinedPath ==
  (last.op = "saveImage" /\ last.err = "") =>
    /\ last.path = PathJoin(client.outputDir, last.filename)
    /\ Resolve(last.path) \in DOMAIN files
    /\ files[Resolve(last.path)] = Base64Bytes(last.input)
    /\ IsAbsolute(last.path) <=> IsAbsolute(client.outputDir)
    /\ client.outputDir = DefaultOutputDir => IsAbsolute(last.path)

C19_Witness ==
  /\ last.op = "saveImage"
  /\ last.err = ""
  /\ client.outputDir = <<"out">>
  /\ last.path = <<"out", "/", "a", ".", "png">>
  /\ files[<<"/", "cwd", "/", "out", "/", "a", ".", "png">>] = 3

\* C20: the configuration is fixed at construction: the constructor stores
\* the output directory it was given, or the default, no later operation
\* changes the client's configuration, and getConfig returns that output
\* directory and nothing else, so never an API key.
C20_ConfigFixed ==
  /\ [](last.op = "getConfig" =>
          /\ last.got = [ outputDir |-> client.outputDir ]
          /\ last.got.outputDir \notin {client.apiKey, client.openaiApiKey})
  /\ [][(last'.op = "constructor" /\ client'.made) =>
          client'.outputDir = IF KeyGiven(last'.config.outputDir)
                              THEN last'.config.outputDir
                              ELSE DefaultOutputDir]_vars
  /\ [][client.made => client' = client]_vars

C20_Witness ==
  /\ last.op = "getConfig"
  /\ last.got.outputDir = <<"out">>
  /\ client.apiKey = GoogleCfgKey
  /\ files # <<>>

\* the Google key that the documented order of the sources selects: the
\* config, the environment variable, ./.env, ~/.agentic-loop/.env
FirstGoogleKey(config, src) ==
  IF KeyGiven(config.apiKey) THEN config.apiKey
  ELSE IF KeyGiven(src.shell.NanoBanana_ApiKey)
  THEN src.shell.NanoBanana_ApiKey
  ELSE IF KeyGiven(src.cwd.NanoBanana_ApiKey) THEN src.cwd.NanoBanana_ApiKey
  ELSE src.home.NanoBanana_ApiKey

\* C21: a Google key present in the config, the NanoBanana_ApiKey
\* variable, ./.env or ~/.agentic-loop/.env is found: construction
\* succeeds with the key of the first of these sources that holds one.
C21_KeySources ==
  (last.op = "constructor"
     /\ KeyGiven(FirstGoogleKey(last.config, sources))) =>
    /\ last.err = ""
    /\ client.made
    /\ client.genAI
    /\ client.apiKey = FirstGoogleKey(last.config, sources)

\* the high-tier image model of the documentation
ProModel == <<"gemini-3-pro-image-preview">>

\* C22: the request of generateImage carries the caller's imageSize when
\* the selected model is the pro model; for any other model, the default
\* one included, it carries the aspect ratio (1:1 unless the caller gave
\* one) and no imageSize, whatever imageSize the caller passed.
C22_ImageSize ==
  (last.op = "generateImage" /\ last.net = 1) =>
    IF last.options.model = ProModel
    THEN last.options.imageSize # Undefined =>
           /\ "imageSize" \in DOMAIN last.request
           /\ last.request.imageSize = last.options.imageSize
    ELSE /\ "imageSize" \notin DOMAIN last.request
         /\ "aspectRatio" \in DOMAIN last.request
         /\ last.request.aspectRatio = JsOr(last.options.aspectRatio, <<"1:1">>)

\* the errors of a generation call that the claim names: missing provider,
\* provider rejection, empty response, no SVG found
GenerationErrors ==
  { ErrOpenAIRequired, ErrGoogleRequiredText, ErrGoogleRequiredSvg,
    ErrProvider, ErrNoImageData, ErrNoSvg }

C24_Settles ==
  /\ \A i \in 1..MaxCalls :
       (Len(running) >= i) ~> (Len(running) >= i /\ Settled(running[i]))
  /\ [](\A i \in 1..Len(running) :
          running[i].pc = "done" =>
            running[i].result = PathJoin(client.outputDir, running[i].name))

=============================================================================
